---- MODULE Spec2Model ----
(***************************************************************************)
(* A model of the database engine: the MemTable (src/src/mem_table.rs),    *)
(* the WAL record codec and segment writer (src/src/wal.rs), the segment   *)
(* iterator (src/src/wal_iterator.rs), recovery (WAL::load_from_dir) and   *)
(* the mutation pipeline of the coordinator (src/src/database.rs).         *)
(*                                                                         *)
(* Byte strings are sequences of naturals below 256.  Vec indices keep the *)
(* source's 0-based numbering; a TLA+ sequence is indexed at idx + 1.      *)
(***************************************************************************)
EXTENDS Integers, Sequences, FiniteSets, TLC

VARIABLES
  mem_table,   \* MemTable { entries, size }: the table of the live Database
  disk,        \* the directory: file name (the number before ".wal") -> bytes
  others,      \* the directory: names of the entries that do not end in ".wal"
  clock,       \* SystemTime::now() in microseconds
  pc,          \* position of the process: "down", "replay", "flush",
               \* "remove", "up", "wal_done"
  wal_files,   \* load_from_dir: the sorted list of old segments
  fidx,        \* load_from_dir: 0-based index of the segment being replayed
  rpos,        \* WALIterator: bytes of the current segment already consumed
  wal,         \* the live WAL { path, buf }: buf is the BufWriter's buffer
  call,        \* the Database::set / Database::delete call in flight
  ret,         \* what the last finished set / delete returned
  ghost        \* history kept for stating the properties (not program state)

vars == <<mem_table, disk, others, clock, pc, wal_files, fidx, rpos, wal, call, ret, ghost>>

(***************************************************************************)
(* Bounds of the model.                                                    *)
(***************************************************************************)
\* Keys and values the operations are drawn from.
Keys == {<<1>>, <<1, 2>>, <<2>>}
\* A value longer than the size a one-entry MemTable accounts for.
LongLen == 20
LongValue == [i \in 1 .. LongLen |-> 9]
Values == {<<>>, <<7>>, <<7, 8>>, LongValue}
\* Largest timestamp handed to MemTable::set / MemTable::delete directly.
MaxTs == 1
\* Keys and values the calls of Database::set / Database::delete are drawn from.
DbKeys == {<<1>>, <<2>>}
DbValues == {<<7>>, <<7, 8>>}

(***************************************************************************)
(* MemTable (src/src/mem_table.rs)                                         *)
(***************************************************************************)
\* Option<Vec<u8>>
Some(v) == [some |-> TRUE, v |-> v]
None == [some |-> FALSE, v |-> <<>>]

MemTableEntry(key, value, timestamp, deleted) ==
  [key |-> key, value |-> value, timestamp |-> timestamp, deleted |-> deleted]

MemTable_new == [entries |-> <<>>, size |-> 0]

\* Ord for [u8]: lexicographic, a proper prefix is smaller.
RECURSIVE SliceCmp(_, _)
SliceCmp(a, b) ==
  IF a = <<>> /\ b = <<>> THEN "Equal"
  ELSE IF a = <<>> THEN "Less"
  ELSE IF b = <<>> THEN "Greater"
  ELSE IF Head(a) < Head(b) THEN "Less"
  ELSE IF Head(a) > Head(b) THEN "Greater"
  ELSE SliceCmp(Tail(a), Tail(b))

\* slice::binary_search_by_key over entries[left..right), comparing e.key
\* with key: Ok(idx) when found, Err(idx) with the insertion index otherwise.
RECURSIVE binary_search_by_key(_, _, _, _)
binary_search_by_key(entries, key, left, right) ==
  IF left >= right THEN [ok |-> FALSE, idx |-> left]
  ELSE LET mid == left + ((right - left) \div 2)
           c == SliceCmp(entries[mid + 1].key, key)
       IN IF c = "Less" THEN binary_search_by_key(entries, key, mid + 1, right)
          ELSE IF c = "Greater" THEN binary_search_by_key(entries, key, left, mid)
          ELSE [ok |-> TRUE, idx |-> mid]

\* A get_index that forgets the insertion index: a key that is not found is
\* pushed at the end.
get_index_append(mt, key) ==
  LET r == binary_search_by_key(mt.entries, key, 0, Len(mt.entries))
  IN IF r.ok THEN r ELSE [ok |-> FALSE, idx |-> Len(mt.entries)]

get_index(mt, key) == binary_search_by_key(mt.entries, key, 0, Len(mt.entries))

\* Vec::insert(idx, e)
VecInsert(s, idx, e) == SubSeq(s, 1, idx) \o <<e>> \o SubSeq(s, idx + 1, Len(s))

\* A set that resolves conflicts by timestamp: an entry with a larger
\* timestamp is kept.
MemTable_set_newest(mt, key, value, timestamp) ==
  LET entry == MemTableEntry(key, Some(value), timestamp, FALSE)
      r == get_index(mt, key)
  IN IF r.ok
     THEN IF mt.entries[r.idx + 1].timestamp > timestamp THEN mt
          ELSE [entries |-> [mt.entries EXCEPT ![r.idx + 1] = entry],
                size |-> mt.size]
     ELSE [entries |-> VecInsert(mt.entries, r.idx, entry),
           size |-> mt.size + Len(key) + Len(value) + 16 + 1]

MemTable_set(mt, key, value, timestamp) ==
  LET entry == MemTableEntry(key, Some(value), timestamp, FALSE)
      r == get_index(mt, key)
  IN IF r.ok
     THEN LET old == mt.entries[r.idx + 1].value
              size == IF old.some
                      THEN IF Len(value) < Len(old.v)
                           THEN mt.size - (Len(old.v) - Len(value))
                           ELSE mt.size + (Len(value) - Len(old.v))
                      ELSE mt.size
          IN [entries |-> [mt.entries EXCEPT ![r.idx + 1] = entry], size |-> size]
     ELSE [entries |-> VecInsert(mt.entries, r.idx, entry),
           size |-> mt.size + Len(key) + Len(value) + 16 + 1]

\* A delete that only raises the flag of the entry found: its value stays.
MemTable_delete_flag_only(mt, key, timestamp) ==
  LET entry == MemTableEntry(key, None, timestamp, TRUE)
      r == get_index(mt, key)
  IN IF r.ok
     THEN LET old == mt.entries[r.idx + 1].value
              size == IF old.some THEN mt.size - Len(old.v) ELSE mt.size
          IN [entries |-> [mt.entries EXCEPT ![r.idx + 1].deleted = TRUE,
                                       ![r.idx + 1].timestamp = timestamp], size |-> size]
     ELSE [entries |-> VecInsert(mt.entries, r.idx, entry),
           size |-> mt.size + Len(key) + 16 + 1]

MemTable_delete(mt, key, timestamp) ==
  LET entry == MemTableEntry(key, None, timestamp, TRUE)
      r == get_index(mt, key)
  IN IF r.ok
     THEN LET old == mt.entries[r.idx + 1].value
              size == IF old.some THEN mt.size - Len(old.v) ELSE mt.size
          IN [entries |-> [mt.entries EXCEPT ![r.idx + 1] = entry], size |-> size]
     ELSE [entries |-> VecInsert(mt.entries, r.idx, entry),
           size |-> mt.size + Len(key) + 16 + 1]

\* A get that returns the entry found, tombstone or not.
MemTable_get_any(mt, key) ==
  LET r == get_index(mt, key)
  IN IF r.ok THEN [some |-> TRUE, e |-> mt.entries[r.idx + 1]]
     ELSE [some |-> FALSE]

\* Option<&MemTableEntry>: Some(entry) or None.
MemTable_get(mt, key) ==
  LET r == get_index(mt, key)
  IN IF r.ok /\ ~mt.entries[r.idx + 1].deleted
     THEN [some |-> TRUE, e |-> mt.entries[r.idx + 1]]
     ELSE [some |-> FALSE]

(***************************************************************************)
(* WAL record codec and segment writer (src/src/wal.rs)                    *)
(***************************************************************************)
\* Width of usize::to_le_bytes() and of u128::to_le_bytes().
UsizeBytes == 8
U128Bytes == 16
\* Capacity of the BufWriter that wraps the segment file (BufWriter::new),
\* at the scale of the model's records (a set record here is 35 bytes).
BufCap == 40
\* Most bytes a write that ends in an error has put into the file.
MaxShort == 2

RECURSIVE to_le_bytes(_, _)
to_le_bytes(n, width) ==
  IF width = 0 THEN <<>> ELSE <<n % 256>> \o to_le_bytes(n \div 256, width - 1)

\* Saturates at TooLong: a length no file of the model can hold.
TooLong == 4096
RECURSIVE from_le_bytes(_)
from_le_bytes(bytes) ==
  IF bytes = <<>> THEN 0
  ELSE LET hi == from_le_bytes(Tail(bytes))
       IN IF hi >= TooLong \div 256 THEN TooLong ELSE Head(bytes) + 256 * hi

\* A set record with the value written before the key.
WAL_set_value_first(key, value, timestamp) ==
  << to_le_bytes(Len(key), UsizeBytes),
     <<0>>,
     to_le_bytes(Len(value), UsizeBytes),
     value,
     key,
     to_le_bytes(timestamp, U128Bytes) >>

\* The write_all calls of WAL::set, in order.
WAL_set(key, value, timestamp) ==
  << to_le_bytes(Len(key), UsizeBytes),
     <<0>>,
     to_le_bytes(Len(value), UsizeBytes),
     key,
     value,
     to_le_bytes(timestamp, U128Bytes) >>

\* The write_all calls of WAL::delete, in order.
WAL_delete(key, timestamp) ==
  << to_le_bytes(Len(key), UsizeBytes),
     <<1>>,
     key,
     to_le_bytes(timestamp, U128Bytes) >>

RECURSIVE Concat(_)
Concat(chunks) == IF chunks = <<>> THEN <<>> ELSE Head(chunks) \o Concat(Tail(chunks))

\* A record of the log: what WAL::set / WAL::delete is called with.
SetRec(key, value, timestamp) ==
  [key |-> key, value |-> Some(value), timestamp |-> timestamp, deleted |-> FALSE]
DelRec(key, timestamp) ==
  [key |-> key, value |-> None, timestamp |-> timestamp, deleted |-> TRUE]
RecWrites(r) ==
  IF r.deleted THEN WAL_delete(r.key, r.timestamp)
  ELSE WAL_set(r.key, r.value.v, r.timestamp)
Encode(r) == Concat(RecWrites(r))

(***************************************************************************)
(* BufWriter<File> as the WAL uses it.  w = [file, buf]: the bytes of the  *)
(* file on disk and the bytes still in the user-space buffer.  Each        *)
(* operator yields the set of outcomes [file, buf, ok] the call can have;  *)
(* with io_fails = FALSE the file system never fails.                      *)
(***************************************************************************)
Min(a, b) == IF a < b THEN a ELSE b
Drop(s, n) == SubSeq(s, n + 1, Len(s))
Take(s, n) == SubSeq(s, 1, n)

\* BufWriter::flush_buf: writes the buffer out; on a write error the part
\* already written is gone from the buffer and the rest stays in it.
flush_buf(w, io_fails) ==
  {[file |-> w.file \o w.buf, buf |-> <<>>, ok |-> TRUE]}
  \cup (IF io_fails
        THEN {[file |-> w.file \o Take(w.buf, n), buf |-> Drop(w.buf, n), ok |-> FALSE] :
                n \in 0 .. Min(MaxShort, Len(w.buf) - 1)}
        ELSE {})

\* BufWriter::write_all(data): flush first when data does not fit in the
\* spare capacity; write through when data is as large as the capacity.
write_all(w, data, io_fails) ==
  LET flushed == IF Len(data) > BufCap - Len(w.buf)
                 THEN flush_buf(w, io_fails)
                 ELSE {[file |-> w.file, buf |-> w.buf, ok |-> TRUE]}
      put(f) == IF ~f.ok THEN {f}
                ELSE IF Len(data) >= BufCap
                THEN {[file |-> f.file \o data, buf |-> f.buf, ok |-> TRUE]}
                     \cup (IF io_fails
                           THEN {[file |-> f.file \o Take(data, n), buf |-> f.buf, ok |-> FALSE] :
                                   n \in 0 .. Min(MaxShort, Len(data) - 1)}
                           ELSE {})
                ELSE {[file |-> f.file, buf |-> f.buf \o data, ok |-> TRUE]}
  IN UNION {put(f) : f \in flushed}

\* A run of write_all calls joined by `?`: the first failure returns.
RECURSIVE write_all_seq(_, _, _)
write_all_seq(w, chunks, io_fails) ==
  IF chunks = <<>> THEN {[file |-> w.file, buf |-> w.buf, ok |-> TRUE]}
  ELSE UNION {IF o.ok THEN write_all_seq(o, Tail(chunks), io_fails) ELSE {o} :
                o \in write_all(w, Head(chunks), io_fails)}

\* A flush that leaves the buffer where it is.
WAL_flush_noop(w, io_fails) == {[file |-> w.file, buf |-> w.buf, ok |-> TRUE]}

\* WAL::flush = BufWriter::flush (File::flush does nothing).
WAL_flush(w, io_fails) == flush_buf(w, io_fails)

(***************************************************************************)
(* WALIterator (src/src/wal_iterator.rs)                                   *)
(***************************************************************************)
Zeros(n) == [i \in 1 .. n |-> 0]

\* A read_exact that behaves as Read::read: a short read that got some bytes
\* is no error.
read_exact_as_read(bytes, pos, n) ==
  IF pos + n <= Len(bytes)
  THEN [ok |-> TRUE, buf |-> SubSeq(bytes, pos + 1, pos + n), pos |-> pos + n]
  ELSE [ok |-> pos < Len(bytes) /\ n < TooLong,
        buf |-> IF n >= TooLong THEN <<>>
                ELSE Drop(bytes, pos) \o Zeros(n - (Len(bytes) - pos)),
        pos |-> Len(bytes)]

\* Read::read_exact on the reader at offset pos: on a short read the buffer
\* holds the bytes that were there, the rest stays zero, and the reader is
\* at the end of the file.
read_exact(bytes, pos, n) ==
  IF pos + n <= Len(bytes)
  THEN [ok |-> TRUE, buf |-> SubSeq(bytes, pos + 1, pos + n), pos |-> pos + n]
  ELSE [ok |-> FALSE,
        buf |-> IF n >= TooLong THEN <<>>
                ELSE Drop(bytes, pos) \o Zeros(n - (Len(bytes) - pos)),
        pos |-> Len(bytes)]

CorruptRecord(pos) == [kind |-> "CorruptRecord", pos |-> pos]
EndOfStream(pos) == [kind |-> "None", pos |-> pos]

\* WALIterator::next: Some(Ok(entry)), Some(Err(CorruptRecord)) or None,
\* with the reader's new offset.
WALIterator_next(bytes, pos) ==
  LET l == read_exact(bytes, pos, UsizeBytes)
  IN IF ~l.ok
     THEN IF l.buf = Zeros(UsizeBytes) THEN EndOfStream(l.pos) ELSE CorruptRecord(l.pos)
     ELSE
     LET key_len == from_le_bytes(l.buf)
         b == read_exact(bytes, l.pos, 1)
     IN IF ~b.ok THEN CorruptRecord(b.pos)
        ELSE
        LET deleted == b.buf[1] # 0
        IN IF deleted
           THEN LET k == read_exact(bytes, b.pos, key_len)
                    t == read_exact(bytes, k.pos, U128Bytes)
                IN IF ~k.ok THEN CorruptRecord(k.pos)
                   ELSE IF ~t.ok THEN CorruptRecord(t.pos)
                   ELSE [kind |-> "Entry", pos |-> t.pos,
                         entry |-> [key |-> k.buf, value |-> None,
                                    timestamp |-> from_le_bytes(t.buf),
                                    deleted |-> TRUE]]
           ELSE LET vl == read_exact(bytes, b.pos, UsizeBytes)
                    value_len == from_le_bytes(vl.buf)
                    k == read_exact(bytes, vl.pos, key_len)
                    v == read_exact(bytes, k.pos, value_len)
                    t == read_exact(bytes, v.pos, U128Bytes)
                IN IF ~vl.ok THEN CorruptRecord(vl.pos)
                   ELSE IF ~k.ok THEN CorruptRecord(k.pos)
                   ELSE IF ~v.ok THEN CorruptRecord(v.pos)
                   ELSE IF ~t.ok THEN CorruptRecord(t.pos)
                   ELSE [kind |-> "Entry", pos |-> t.pos,
                         entry |-> [key |-> k.buf, value |-> Some(v.buf),
                                    timestamp |-> from_le_bytes(t.buf),
                                    deleted |-> FALSE]]

(***************************************************************************)
(* The directory and the clock                                             *)
(***************************************************************************)
\* First file name of the model: the names of a run have the same number of
\* digits, as microsecond timestamps of one era have.
Epoch == 10
\* Timestamps the clock may hand out after Epoch in a run of the database.
MaxTicks == 4
\* Database::new calls in a run that starts from a given directory.
MaxOpens == 2
\* Write errors the file system may report in a run.
MaxFails == 1

RECURSIVE Digits(_)
Digits(n) == IF n < 10 THEN <<48 + n>> ELSE Digits(n \div 10) \o <<48 + (n % 10)>>

\* The file name WAL::new forms: timestamp.to_string() + ".wal".
FileName(n) == Digits(n) \o <<46, 119, 97, 108>>

\* files_with_ext(dir, "wal"): the segment files of the directory.
files_with_ext(d) == DOMAIN d

\* Path::extension of an entry that does not end in ".wal": <<e>>, or <<>>
\* for a name without an extension.
extension(path) == path.ext

\* utils.rs 9: path.extension().unwrap() panics on an entry without an
\* extension; the loop visits every entry of the directory.
files_with_ext_panics(o) == \E path \in o : extension(path) = <<>>

\* A sort in descending order.
RECURSIVE sort_reversed(_)
sort_reversed(names) ==
  IF names = {} THEN <<>>
  ELSE LET m == CHOOSE x \in names :
                  \A y \in names \ {x} : SliceCmp(FileName(x), FileName(y)) = "Greater"
       IN <<m>> \o sort_reversed(names \ {m})

\* Vec<PathBuf>::sort(): ascending order of the paths, which differ in the
\* file name only.
RECURSIVE sort(_)
sort(names) ==
  IF names = {} THEN <<>>
  ELSE LET m == CHOOSE x \in names :
                  \A y \in names \ {x} : SliceCmp(FileName(x), FileName(y)) = "Less"
       IN <<m>> \o sort(names \ {m})

\* OpenOptions::new().append(true).create(true).open(path)
open_append_create(d, name) == IF name \in DOMAIN d THEN d ELSE d @@ (name :> <<>>)

\* A remove_file that removes nothing.
remove_file_skip(d, name) == d

remove_file(d, name) == [n \in (DOMAIN d) \ {name} |-> d[n]]

NoWal == [path |-> 0, buf |-> <<>>]

\* The BufWriter of the live WAL together with its file.
Writer == [file |-> disk[wal.path], buf |-> wal.buf]

(***************************************************************************)
(* Replay of a byte string, as load_from_dir's loop over one segment does  *)
(* it: every entry the iterator yields is applied; the segment is          *)
(* exhausted when the iterator yields None or a corrupt record.            *)
(***************************************************************************)
SegmentExhausted(item) == item.kind # "Entry"

apply_entry(mt, entry) ==
  IF entry.deleted THEN MemTable_delete(mt, entry.key, entry.timestamp)
  ELSE MemTable_set(mt, entry.key, entry.value.v, entry.timestamp)

RECURSIVE DecodeAll(_, _)
DecodeAll(bytes, pos) ==
  LET item == WALIterator_next(bytes, pos)
  IN IF SegmentExhausted(item) THEN <<>>
     ELSE <<item.entry>> \o DecodeAll(bytes, item.pos)

RECURSIVE ApplyAll(_, _)
ApplyAll(mt, recs) ==
  IF recs = <<>> THEN mt ELSE ApplyAll(apply_entry(mt, Head(recs)), Tail(recs))

RECURSIVE ReplayFiles(_, _, _)
ReplayFiles(mt, d, files) ==
  IF files = <<>> THEN mt
  ELSE ReplayFiles(ApplyAll(mt, DecodeAll(d[Head(files)], 0)), d, Tail(files))

(***************************************************************************)
(* Database (src/src/database.rs)                                          *)
(***************************************************************************)
\* Database::get: a copy of (key, value, timestamp) of a live entry.
Database_get(mt, key) ==
  LET r == MemTable_get(mt, key)
  IN IF r.some
     THEN [some |-> TRUE, key |-> r.e.key, value |-> r.e.value.v,
           timestamp |-> r.e.timestamp]
     ELSE [some |-> FALSE]

\* The WAL half without the flush: the record stays in the buffer.
Database_wal_noflush(w, rec, io_fails) == write_all_seq(w, RecWrites(rec), io_fails)

\* The WAL half with the results of append and flush ignored.
Database_wal_unchecked(w, rec, io_fails) ==
  {[o EXCEPT !.ok = TRUE] :
     o \in UNION {IF a.ok THEN WAL_flush(a, io_fails) ELSE {a} :
                    a \in write_all_seq(w, RecWrites(rec), io_fails)}}

\* The WAL half of Database::set / Database::delete: the append, then the
\* flush unless the append failed.  The set of outcomes [file, buf, ok].
Database_wal(w, rec, io_fails) ==
  UNION {IF a.ok THEN WAL_flush(a, io_fails) ELSE {a} :
           a \in write_all_seq(w, RecWrites(rec), io_fails)}

(***************************************************************************)
(* History kept for the properties.  ghost.crash describes the latest stop *)
(* of the process: where it was, the MemTable its recovery was building    *)
(* (in "remove") or would have built had it run to its end (in "replay"),  *)
(* its successor segment and whether bytes of it had reached the disk.     *)
(***************************************************************************)
NoStop == [phase |-> "none", result |-> MemTable_new, succ |-> 0, spilled |-> FALSE]

Ghost0 ==
  [horizon |-> Epoch,      \* the clock stops handing out timestamps here
   io_fails |-> FALSE,     \* whether writes of this run may fail
   fails |-> 0,            \* write errors so far
   failed |-> {},          \* records whose set / delete returned Err
   clean |-> TRUE,         \* no call of the live Database returned Err
   snap |-> <<>>,          \* Database::get of every key at the latest stop
   segs |-> <<>>,          \* the segments the run started with
   opens |-> 0,            \* Database::new calls that returned
   first |-> <<>>,         \* the MemTable of the first of them
   rough |-> FALSE,        \* some recovery was cut short by a crash
   ops |-> 0,              \* operations applied to a MemTable on its own
   last |-> [k \in Keys |-> <<>>],  \* the last of them per key, if any
   sum |-> 0,              \* the running sum of spec section 3 over them
   back |-> FALSE,         \* one of them had a timestamp below the stored one
   log |-> <<>>,           \* records appended to a WAL on its own
   load |-> "none",        \* how a failed load_from_dir ended: "Err", "panic"
   goal |-> MemTable_new,  \* replay of the old segments the latest open found
   crash |-> NoStop]

Stopped(g, snapshot, stop, rough) ==
  [g EXCEPT !.snap = snapshot, !.crash = stop, !.rough = g.rough \/ rough,
            !.clean = TRUE]

(***************************************************************************)
(* Recovery: Database::new -> WAL::load_from_dir, one action per step of   *)
(* the function a crash can fall between.                                  *)
(***************************************************************************)
\* Line 50 when files_with_ext panics: Database::new does not return and
\* the process is gone; nothing of the directory was touched.
OpenPanic ==
  /\ pc = "down"
  /\ clock < ghost.horizon
  /\ files_with_ext_panics(others)
  /\ pc' = "panic"
  /\ UNCHANGED <<mem_table, disk, others, clock, wal_files, fidx, rpos, wal, call,
                 ret, ghost>>

\* Lines 50-54: list and sort the segments, create the successor.
OpenStart ==
  /\ UNCHANGED others
  /\ pc = "down"
  /\ clock < ghost.horizon
  /\ ~files_with_ext_panics(others)
  /\ wal_files' = sort(files_with_ext(disk))
  /\ mem_table' = MemTable_new
  /\ disk' = open_append_create(disk, clock)
  /\ wal' = [path |-> clock, buf |-> <<>>]
  /\ clock' = clock + 1
  /\ fidx' = 0
  /\ rpos' = 0
  /\ pc' = "replay"
  /\ ghost' = [ghost EXCEPT !.goal = ReplayFiles(MemTable_new, disk, wal_files')]
  /\ UNCHANGED <<call, ret>>

\* A replay that compacts: tombstones are applied to the MemTable but not
\* copied to the successor.
ReplayStep_compacting ==
  /\ UNCHANGED others
  /\ pc = "replay"
  /\ fidx < Len(wal_files)
  /\ LET item == WALIterator_next(disk[wal_files[fidx + 1]], rpos)
     IN IF SegmentExhausted(item)
        THEN /\ fidx' = fidx + 1
             /\ rpos' = 0
             /\ UNCHANGED <<mem_table, disk, wal>>
        ELSE /\ mem_table' = apply_entry(mem_table, item.entry)
             /\ IF item.entry.deleted
                THEN UNCHANGED <<disk, wal>>
                ELSE \E o \in write_all_seq(Writer, RecWrites(item.entry), FALSE) :
                       /\ disk' = [disk EXCEPT ![wal.path] = o.file]
                       /\ wal' = [wal EXCEPT !.buf = o.buf]
             /\ rpos' = item.pos
             /\ fidx' = fidx
  /\ UNCHANGED <<clock, pc, wal_files, call, ret, ghost>>

\* Lines 55-75, one turn of the inner loop: the next item of the current
\* segment; an entry goes to the MemTable and to the successor's writer.
ReplayStep ==
  /\ UNCHANGED others
  /\ pc = "replay"
  /\ fidx < Len(wal_files)
  /\ LET item == WALIterator_next(disk[wal_files[fidx + 1]], rpos)
     IN IF SegmentExhausted(item)
        THEN /\ fidx' = fidx + 1
             /\ rpos' = 0
             /\ UNCHANGED <<mem_table, disk, wal>>
        ELSE /\ mem_table' = apply_entry(mem_table, item.entry)
             /\ \E o \in write_all_seq(Writer, RecWrites(item.entry), FALSE) :
                  /\ disk' = [disk EXCEPT ![wal.path] = o.file]
                  /\ wal' = [wal EXCEPT !.buf = o.buf]
             /\ rpos' = item.pos
             /\ fidx' = fidx
  /\ UNCHANGED <<clock, pc, wal_files, call, ret, ghost>>

\* Line 76: new_wal.flush().unwrap()
FlushStep ==
  /\ UNCHANGED others
  /\ pc = "replay"
  /\ fidx = Len(wal_files)
  /\ \E o \in WAL_flush(Writer, FALSE) :
       /\ disk' = [disk EXCEPT ![wal.path] = o.file]
       /\ wal' = [wal EXCEPT !.buf = o.buf]
  /\ pc' = "remove"
  /\ fidx' = 0
  /\ UNCHANGED <<mem_table, clock, wal_files, rpos, call, ret, ghost>>

\* Line 77, one turn of for_each: remove_file(f).unwrap()
RemoveStep ==
  /\ UNCHANGED others
  /\ pc = "remove"
  /\ fidx < Len(wal_files)
  /\ disk' = remove_file(disk, wal_files[fidx + 1])
  /\ fidx' = fidx + 1
  /\ UNCHANGED <<mem_table, clock, pc, wal_files, rpos, wal, call, ret, ghost>>

\* Line 79 and database.rs 37-43: Ok((new_wal, new_mem_table)), the Database.
OpenDone ==
  /\ UNCHANGED others
  /\ pc = "remove"
  /\ fidx = Len(wal_files)
  /\ pc' = "up"
  /\ ret' = "none"
  /\ ghost' = [ghost EXCEPT !.opens = @ + 1,
                            !.first = IF ghost.opens = 0 THEN <<mem_table>> ELSE @]
  /\ UNCHANGED <<mem_table, disk, clock, wal_files, fidx, rpos, wal, call>>

(***************************************************************************)
(* The mutation pipeline: Database::set and Database::delete.  The WAL     *)
(* half (timestamp, append, flush, the two early returns) is one action,   *)
(* the MemTable half with the return of Ok(1) the next.                    *)
(***************************************************************************)
DbWal(rec) ==
  /\ UNCHANGED others
  /\ \E o \in Database_wal(Writer, rec, ghost.io_fails /\ ghost.fails < MaxFails) :
       /\ disk' = [disk EXCEPT ![wal.path] = o.file]
       /\ wal' = [wal EXCEPT !.buf = o.buf]
       /\ IF o.ok
          THEN /\ pc' = "wal_done"
               /\ call' = <<rec>>
               /\ ret' = "none"
               /\ ghost' = [ghost EXCEPT !.snap = <<>>]
          ELSE /\ pc' = "up"
               /\ call' = <<>>
               /\ ret' = "Err"
               /\ ghost' = [ghost EXCEPT !.snap = <<>>, !.clean = FALSE,
                                         !.fails = @ + 1,
                                         !.failed = @ \cup {rec}]
  /\ clock' = clock + 1
  /\ UNCHANGED <<mem_table, wal_files, fidx, rpos>>

\* database.rs 58-70
DbSet ==
  /\ pc = "up"
  /\ clock < ghost.horizon
  /\ \E k \in DbKeys, v \in DbValues : DbWal(SetRec(k, v, clock))

\* database.rs 77-89
DbDelete ==
  /\ pc = "up"
  /\ clock < ghost.horizon
  /\ \E k \in DbKeys : DbWal(DelRec(k, clock))

\* database.rs 72-74 and 91-93
DbApply ==
  /\ UNCHANGED others
  /\ pc = "wal_done"
  /\ mem_table' = apply_entry(mem_table, call[1])
  /\ call' = <<>>
  /\ ret' = "Ok"
  /\ pc' = "up"
  /\ UNCHANGED <<disk, clock, wal_files, fidx, rpos, wal, ghost>>

(***************************************************************************)
(* The ways the process stops.                                             *)
(***************************************************************************)
Snapshot == [k \in DbKeys |-> Database_get(mem_table, k)]

Down(snapshot, stop, rough) ==
  /\ UNCHANGED others
  /\ pc' = "down"
  /\ mem_table' = MemTable_new
  /\ wal_files' = <<>>
  /\ fidx' = 0
  /\ rpos' = 0
  /\ wal' = NoWal
  /\ call' = <<>>
  /\ ret' = "none"
  /\ ghost' = Stopped(ghost, snapshot, stop, rough)
  /\ UNCHANGED clock

\* The process is killed: what is in the BufWriter's buffer is lost.
Crash ==
  /\ pc # "down"
  /\ UNCHANGED disk
  /\ Down(IF pc = "up" /\ ghost.clean THEN <<Snapshot>> ELSE <<>>,
          [phase |-> pc,
           result |-> IF pc = "replay" THEN ghost.goal ELSE mem_table,
           succ |-> wal.path,
           spilled |-> disk[wal.path] # <<>>],
          pc \in {"replay", "remove"})

\* The Database is dropped: BufWriter::drop flushes the buffer and ignores
\* the result.
Close ==
  /\ pc = "up"
  /\ \E o \in flush_buf(Writer, ghost.io_fails /\ ghost.fails < MaxFails) :
       disk' = [disk EXCEPT ![wal.path] = o.file]
  /\ Down(IF ghost.clean THEN <<Snapshot>> ELSE <<>>,
          [phase |-> "up", result |-> mem_table, succ |-> wal.path,
           spilled |-> disk[wal.path] # <<>>],
          FALSE)

(***************************************************************************)
(* Spec: a database that starts on an empty directory, is written to,     *)
(* stopped and opened again, on a file system whose writes may fail.       *)
(***************************************************************************)
Init ==
  /\ others = {}
  /\ mem_table = MemTable_new
  /\ disk = <<>>
  /\ clock = Epoch
  /\ pc = "down"
  /\ wal_files = <<>>
  /\ fidx = 0
  /\ rpos = 0
  /\ wal = NoWal
  /\ call = <<>>
  /\ ret = "none"
  /\ ghost = [Ghost0 EXCEPT !.horizon = Epoch + MaxTicks, !.io_fails = TRUE]

Next ==
  \/ OpenStart
  \/ ReplayStep
  \/ FlushStep
  \/ RemoveStep
  \/ OpenDone
  \/ DbSet
  \/ DbDelete
  \/ DbApply
  \/ Crash
  \/ Close

Spec == Init /\ [][Next]_vars

(***************************************************************************)
(* SpecMem: a MemTable on its own, as the tests of mem_table.rs use it.    *)
(***************************************************************************)
Rest0 ==
  /\ others = {}
  /\ disk = <<>>
  /\ clock = Epoch
  /\ pc = "down"
  /\ wal_files = <<>>
  /\ fidx = 0
  /\ rpos = 0
  /\ wal = NoWal
  /\ call = <<>>
  /\ ret = "none"

InitMem ==
  /\ mem_table = MemTable_new
  /\ Rest0
  /\ ghost = Ghost0

\* Operations applied to the MemTable in a run.
MaxMemOps == 4

\* The running sum of spec section 3, kept from the history of operations
\* alone: old is the last operation applied to the key, if any.
OldLen(old) == IF old # <<>> /\ ~old[1].deleted THEN Len(old[1].value.v) ELSE 0

SumAfterSet(sum, old, key, value) ==
  IF old = <<>> THEN sum + Len(key) + Len(value) + 16 + 1
  ELSE sum + Len(value) - OldLen(old)

SumAfterDelete(sum, old, key) ==
  IF old = <<>> THEN sum + Len(key) + 16 + 1
  ELSE sum - OldLen(old)

GoesBack(old, timestamp) == old # <<>> /\ timestamp < old[1].timestamp

MemSet ==
  /\ UNCHANGED others
  /\ ghost.ops < MaxMemOps
  /\ \E k \in Keys, v \in Values, t \in 0 .. MaxTs :
       /\ mem_table' = MemTable_set(mem_table, k, v, t)
       /\ ghost' = [ghost EXCEPT
                      !.ops = @ + 1,
                      !.last[k] = <<[value |-> Some(v), timestamp |-> t,
                                     deleted |-> FALSE]>>,
                      !.sum = SumAfterSet(@, ghost.last[k], k, v),
                      !.back = @ \/ GoesBack(ghost.last[k], t)]
  /\ UNCHANGED <<disk, clock, pc, wal_files, fidx, rpos, wal, call, ret>>

MemDelete ==
  /\ UNCHANGED others
  /\ ghost.ops < MaxMemOps
  /\ \E k \in Keys, t \in 0 .. MaxTs :
       /\ mem_table' = MemTable_delete(mem_table, k, t)
       /\ ghost' = [ghost EXCEPT
                      !.ops = @ + 1,
                      !.last[k] = <<[value |-> None, timestamp |-> t,
                                     deleted |-> TRUE]>>,
                      !.sum = SumAfterDelete(@, ghost.last[k], k),
                      !.back = @ \/ GoesBack(ghost.last[k], t)]
  /\ UNCHANGED <<disk, clock, pc, wal_files, fidx, rpos, wal, call, ret>>

NextMem ==
  \/ MemSet
  \/ MemDelete

SpecMem == InitMem /\ [][NextMem]_vars

(***************************************************************************)
(* Directories that hold segments written earlier, as the tests of wal.rs  *)
(* prepare them with WAL::new, set, delete and flush.                      *)
(***************************************************************************)
\* Segments in the directory at the start, and records in all of them.
MaxSegs == 2
MaxRecs == 2

\* The records the segments are made of: a key that is set, set again to a
\* longer value with a smaller timestamp and deleted, and a second key.
OneKeyRecs == {SetRec(<<1>>, <<7>>, 2), SetRec(<<1>>, <<7, 8>>, 1), DelRec(<<1>>, 3)}
Recs == OneKeyRecs \cup {SetRec(<<2>>, <<7>>, 1)}

SeqsUpTo(S, n) == UNION {[1 .. m -> S] : m \in 0 .. n}

\* The lists of n segments (each a list of records of pool) with m records
\* at most.
RECURSIVE SegLists(_, _, _)
SegLists(pool, n, m) ==
  IF n = 0 THEN {<<>>}
  ELSE UNION {{<<rs>> \o rest : rest \in SegLists(pool, n - 1, m - Len(rs))} :
                rs \in SeqsUpTo(pool, m)}

RECURSIVE EncodeAll(_)
EncodeAll(recs) == IF recs = <<>> THEN <<>> ELSE Encode(Head(recs)) \o EncodeAll(Tail(recs))

\* Segment i of the initial directory: named Epoch + i - 1, holding recs
\* with the last cut bytes missing (cut > 0 cuts into the last record).
Segment(i, recs, cut) == [name |-> Epoch + i - 1, recs |-> recs, cut |-> cut]
SegmentBytes(seg) == Take(EncodeAll(seg.recs), Len(EncodeAll(seg.recs)) - seg.cut)

Cuts(recs) == IF recs = <<>> THEN {} ELSE 1 .. (Len(Encode(recs[Len(recs)])) - 1)

\* The directory made of segs, the clock past the newest of them, and a
\* process that is down and may be started `opens` times.
StartOn(segs, opens) ==
  /\ others = {}
  /\ mem_table = MemTable_new
  /\ pc = "down"
  /\ wal_files = <<>>
  /\ fidx = 0
  /\ rpos = 0
  /\ wal = NoWal
  /\ call = <<>>
  /\ ret = "none"
  /\ disk = [f \in {Epoch + i - 1 : i \in 1 .. Len(segs)} |-> SegmentBytes(segs[f - Epoch + 1])]
  /\ clock = Epoch + Len(segs)
  /\ ghost = [Ghost0 EXCEPT !.segs = segs, !.horizon = Epoch + Len(segs) + opens]

(***************************************************************************)
(* SpecRec: recovery of such a directory by a process that may be killed   *)
(* at any step, closed and started again.  The file system does not fail.  *)
(***************************************************************************)
InitRec ==
  \E n \in 0 .. MaxSegs :
    \E lists \in SegLists(OneKeyRecs, n, MaxRecs) :
      StartOn([i \in 1 .. n |-> Segment(i, lists[i], 0)], MaxOpens)

NextRec ==
  \/ OpenStart
  \/ ReplayStep
  \/ FlushStep
  \/ RemoveStep
  \/ OpenDone
  \/ Crash
  \/ Close

SpecRec == InitRec /\ [][NextRec]_vars

(***************************************************************************)
(* SpecOpen: one recovery, not interrupted, of such a directory in which   *)
(* one segment may have lost the last bytes of its last record.            *)
(***************************************************************************)
InitOpen ==
  \E n \in 0 .. MaxSegs :
    \E lists \in SegLists(Recs, n, MaxRecs) :
      \E c \in 0 .. n :
        \E cut \in (IF c = 0 THEN {0} ELSE Cuts(lists[c])) :
          StartOn([i \in 1 .. n |-> Segment(i, lists[i], IF i = c THEN cut ELSE 0)], 1)

NextOpen ==
  \/ OpenStart
  \/ ReplayStep
  \/ FlushStep
  \/ RemoveStep
  \/ OpenDone

SpecOpen == InitOpen /\ [][NextOpen]_vars

(***************************************************************************)
(* Properties                                                              *)
(***************************************************************************)
Last(s) == s[Len(s)]
IsSuffix(t, s) == Len(t) <= Len(s) /\ Drop(s, Len(s) - Len(t)) = t

\* The records of the initial directory that are whole: segment by segment
\* in the order of the names, in each segment in file order; a segment that
\* was cut lost its last record.
RECURSIVE KeptRecs(_)
KeptRecs(segs) ==
  IF segs = <<>> THEN <<>>
  ELSE (IF Head(segs).cut = 0 THEN Head(segs).recs
        ELSE Take(Head(segs).recs, Len(Head(segs).recs) - 1))
       \o KeptRecs(Tail(segs))

NoCut == \A i \in 1 .. Len(ghost.segs) : ghost.segs[i].cut = 0

\* C1: when every set / delete of the live Database returned Ok and the
\* process stops (crash or drop), the Database the next open returns answers
\* get(k), for every key k, as it did just before the stop (value and
\* timestamp, or absent).
C1_Durability ==
  (pc = "up" /\ ghost.snap # <<>>) =>
    \A k \in DbKeys : Database_get(mem_table, k) = ghost.snap[1][k]

C1_Witness ==
  /\ pc = "up"
  /\ ghost.opens >= 2
  /\ ghost.snap # <<>>
  /\ \E k \in DbKeys : ghost.snap[1][k].some
  /\ \E i \in 1 .. Len(mem_table.entries) : mem_table.entries[i].deleted

\* C2: in Database::set / Database::delete the MemTable changes only after
\* the record was appended and flushed (it is then the tail of the segment
\* file and nothing is left in the buffer), and a call that returns an error
\* leaves the MemTable, entries and size, as it was.
C2_WriteAhead ==
  [][/\ (pc \in {"up", "wal_done"} /\ pc' # "down" /\ mem_table' # mem_table) =>
          /\ pc = "wal_done"
          /\ call # <<>>
          /\ wal.buf = <<>>
          /\ IsSuffix(Encode(call[1]), disk[wal.path])
          /\ mem_table' = apply_entry(mem_table, call[1])
     /\ (ret' = "Err") => (pc = "up" /\ mem_table' = mem_table)]_vars

C2_Witness ==
  /\ pc = "up"
  /\ ret = "Err"
  /\ mem_table.entries # <<>>
  /\ wal.buf # <<>>

\* C3: a record whose set / delete returned an error is in no segment a
\* later open replays, and in no MemTable.
C3_AllOrNothing ==
  \A r \in ghost.failed :
    /\ \A f \in DOMAIN disk :
         \A i \in 1 .. Len(DecodeAll(disk[f], 0)) : DecodeAll(disk[f], 0)[i] # r
    /\ \A i \in 1 .. Len(mem_table.entries) : mem_table.entries[i] # r

\* C4: the MemTable an open returns equals, entry by entry and in size, the
\* replay of every record of every segment, segments in the order of their
\* names and records in file order, into an empty MemTable.
C4_WalMemTableEquivalence ==
  (pc = "up" /\ NoCut) => mem_table = ApplyAll(MemTable_new, KeptRecs(ghost.segs))

C4_Witness ==
  /\ pc = "up"
  /\ NoCut
  /\ Len(ghost.segs) = 2
  /\ \A i \in 1 .. 2 : ghost.segs[i].recs # <<>>
  /\ ghost.segs[1].recs[1].key = ghost.segs[2].recs[1].key
  /\ ghost.segs[1].recs[1] # ghost.segs[2].recs[1]

\* C5: when a recovery has returned, the directory holds exactly one
\* segment, the successor, and the replay of its bytes into an empty
\* MemTable is the MemTable the recovery returned; an empty directory gives
\* an empty MemTable and a segment of length zero.
C5_OneSegmentAfterRecovery ==
  (pc = "up") =>
    /\ DOMAIN disk = {wal.path}
    /\ ApplyAll(MemTable_new, DecodeAll(disk[wal.path], 0)) = mem_table
    /\ (ghost.segs = <<>> /\ ghost.opens = 1) =>
         (mem_table = MemTable_new /\ disk[wal.path] = <<>>)

C5_Witness ==
  /\ pc = "up"
  /\ Len(wal_files) = 2
  /\ Len(mem_table.entries) = 1
  /\ Len(DecodeAll(disk[wal.path], 0)) = 2

\* C6: open, close, open with no mutation in between gives the MemTable of
\* the first open.
C6_RecoveryIdempotence ==
  (pc = "up" /\ ghost.opens >= 2 /\ ~ghost.rough) => mem_table = ghost.first[1]

C6_Witness ==
  /\ pc = "up"
  /\ ghost.opens = 2
  /\ ~ghost.rough
  /\ Len(ghost.segs) = 2
  /\ \E i \in 1 .. Len(mem_table.entries) : mem_table.entries[i].deleted

\* C7: when the process dies after the flush of the successor and before the
\* removal of the last old segment, the next open replays the old segments
\* that are left and then that successor, and returns a MemTable equal
\* (entries and size) to the one the interrupted recovery had built.
C7_CrashBeforeRemoval ==
  (pc \in {"replay", "remove", "up"} /\ ghost.crash.phase = "remove") =>
    /\ wal_files # <<>>
    /\ Last(wal_files) = ghost.crash.succ
    /\ \A i \in 1 .. (Len(wal_files) - 1) :
         \E j \in 1 .. Len(ghost.segs) : wal_files[i] = ghost.segs[j].name
    /\ (pc = "up") => mem_table = ghost.crash.result

\* What does hold of that open: the order of the replay, and the entries
\* (key, value, timestamp, deleted).  Replaying a record twice changes the
\* running sum of MemTable::set / MemTable::delete, so size() may differ.
C7_EntriesAgree ==
  (pc \in {"replay", "remove", "up"} /\ ghost.crash.phase = "remove") =>
    /\ wal_files # <<>>
    /\ Last(wal_files) = ghost.crash.succ
    /\ \A i \in 1 .. (Len(wal_files) - 1) :
         \E j \in 1 .. Len(ghost.segs) : wal_files[i] = ghost.segs[j].name
    /\ (pc = "up") => mem_table.entries = ghost.crash.result.entries

C7_Witness ==
  /\ pc = "up"
  /\ ghost.crash.phase = "remove"
  /\ Len(ghost.segs) = 2
  /\ Len(wal_files) = 2
  /\ mem_table.entries # <<>>

\* C8: after a crash that fell into the replay, when a prefix of the
\* successor had reached the disk, the next open returns a MemTable with the
\* entries an uninterrupted recovery of the old segments would have returned.
C8_PartialSuccessor ==
  (pc = "up" /\ ghost.crash.phase = "replay" /\ ghost.crash.spilled) =>
    mem_table.entries = ghost.crash.result.entries

C10_SortedUniqueness ==
  \A i, j \in 1 .. Len(mem_table.entries) :
    (i < j) => SliceCmp(mem_table.entries[i].key, mem_table.entries[j].key) = "Less"

C10_Witness ==
  /\ Len(mem_table.entries) = 3
  /\ ghost.ops = 4
  /\ mem_table.entries[2].deleted

\* C11: get(k) returns absent exactly when the last operation applied to k
\* was a delete or no operation was applied to k; a delete of a key never
\* set leaves a tombstone entry for k, which get does not return.
C11_TombstoneVisibility ==
  \A k \in Keys :
    /\ ~MemTable_get(mem_table, k).some
          <=> (ghost.last[k] = <<>> \/ ghost.last[k][1].deleted)
    /\ (ghost.last[k] # <<>> /\ ghost.last[k][1].deleted) =>
          \E i \in 1 .. Len(mem_table.entries) :
            mem_table.entries[i].key = k /\ mem_table.entries[i].deleted

C11_Witness ==
  /\ Len(mem_table.entries) = 2
  /\ ghost.ops = 2
  /\ mem_table.entries[1].deleted
  /\ ~mem_table.entries[2].deleted
  /\ ~MemTable_get(mem_table, mem_table.entries[1].key).some
  /\ MemTable_get(mem_table, mem_table.entries[2].key).some

\* C12: the entry of k holds the value, the timestamp and the deleted flag
\* of the last operation applied to k, whatever the timestamp stored before;
\* get(k) returns the value and timestamp of the last set(k, v) when no
\* delete(k) followed it.
C12_LastWriteWins ==
  \A k \in Keys :
    /\ ghost.last[k] # <<>> =>
          \E i \in 1 .. Len(mem_table.entries) :
            mem_table.entries[i] =
              MemTableEntry(k, ghost.last[k][1].value, ghost.last[k][1].timestamp,
                            ghost.last[k][1].deleted)
    /\ ghost.last[k] = <<>> =>
          \A i \in 1 .. Len(mem_table.entries) : mem_table.entries[i].key # k
    /\ (ghost.last[k] # <<>> /\ ~ghost.last[k][1].deleted) =>
          /\ MemTable_get(mem_table, k).some
          /\ MemTable_get(mem_table, k).e.value = ghost.last[k][1].value
          /\ MemTable_get(mem_table, k).e.timestamp = ghost.last[k][1].timestamp

\* A key set with timestamp 1 and then set again with timestamp 0.
C12_Witness ==
  /\ ghost.ops >= 3
  /\ ghost.back
  /\ \E k \in Keys :
       /\ ghost.last[k] # <<>>
       /\ ghost.last[k][1].timestamp = 0
       /\ ~ghost.last[k][1].deleted
       /\ ghost.sum = Len(k) + Len(ghost.last[k][1].value.v) + 16 + 1
       /\ Len(mem_table.entries) = 1

\* C13: after every prefix of a sequence of set / delete calls, size() is
\* the running sum of spec section 3: a fresh live insert adds
\* len(key) + len(value) + 16 + 1, a fresh tombstone len(key) + 16 + 1, an
\* overwrite with a live value len(new_value) - len(old_value), an overwrite
\* of a live entry with a tombstone subtracts len(old_value).
C13_SizeAccounting == mem_table.size = ghost.sum

\* A delete of an absent key followed by a set of it: the value is not counted.
C13_Witness ==
  /\ ghost.ops = 2
  /\ Len(mem_table.entries) = 1
  /\ ~mem_table.entries[1].deleted
  /\ mem_table.size # ghost.sum

\* C17: no subtraction of MemTable::set / MemTable::delete takes size below
\* zero.  (size is kept as the mathematical integer here: a negative value
\* is a usize subtraction that overflowed, which panics in a build with
\* overflow checks and wraps to 2^64 - n without them.)
C17_NoUnderflow == mem_table.size >= 0

\* delete(k), set(k, long value), delete(k).
C17_Witness ==
  /\ ghost.ops = 3
  /\ mem_table.size < 0
  /\ Len(mem_table.entries) = 1

\* The byte size of the entries: len(key) + 16 + 1 for each, plus len(value)
\* for the live ones.
RECURSIVE EntriesSize(_)
EntriesSize(entries) ==
  IF entries = <<>> THEN 0
  ELSE Len(Head(entries).key) + 16 + 1
       + (IF Head(entries).deleted THEN 0 ELSE Len(Head(entries).value.v))
       + EntriesSize(Tail(entries))

\* C18: size() is a function of the current entries: the sum over them of
\* len(key) + 16 + 1, plus len(value) for live entries, whatever the
\* operations that produced them.
C18_SizeOfEntries == mem_table.size = EntriesSize(mem_table.entries)

\* One live entry with a value that size() does not count.
C18_Witness ==
  /\ ghost.ops = 2
  /\ Len(mem_table.entries) = 1
  /\ ~mem_table.entries[1].deleted
  /\ mem_table.entries[1].value.v = LongValue
  /\ mem_table.size = Len(mem_table.entries[1].key) + 16 + 1

(***************************************************************************)
(* A WAL on its own, as the tests of wal.rs use it: WAL::new in an empty   *)
(* directory, then set / delete / flush; the file is read back with the    *)
(* WALIterator.  The keys include the empty key and a zero byte, the       *)
(* timestamps one that takes two bytes.                                    *)
(***************************************************************************)
WalKeys == {<<>>, <<0>>, <<1, 2>>}
WalValues == {<<>>, <<0, 7>>}
WalStamps == {0, 258}
\* Records appended in a run.
MaxLog == 2

InitWal ==
  /\ others = {}
  /\ mem_table = MemTable_new
  /\ disk = (Epoch :> <<>>)
  /\ clock = Epoch + 1
  /\ pc = "wal"
  /\ wal_files = <<>>
  /\ fidx = 0
  /\ rpos = 0
  /\ wal = [path |-> Epoch, buf |-> <<>>]
  /\ call = <<>>
  /\ ret = "none"
  /\ ghost = Ghost0

WalAppend(rec) ==
  /\ UNCHANGED others
  /\ pc = "wal"
  /\ Len(ghost.log) < MaxLog
  /\ \E o \in write_all_seq(Writer, RecWrites(rec), FALSE) :
       /\ disk' = [disk EXCEPT ![wal.path] = o.file]
       /\ wal' = [wal EXCEPT !.buf = o.buf]
  /\ ghost' = [ghost EXCEPT !.log = Append(@, rec)]
  /\ UNCHANGED <<mem_table, clock, pc, wal_files, fidx, rpos, call, ret>>

\* wal.rs 83-92
WalSet == \E k \in WalKeys, v \in WalValues, t \in WalStamps : WalAppend(SetRec(k, v, t))

\* wal.rs 97-104
WalDelete == \E k \in WalKeys, t \in WalStamps : WalAppend(DelRec(k, t))

\* wal.rs 111-113
WalFlush ==
  /\ UNCHANGED others
  /\ pc = "wal"
  /\ wal.buf # <<>>
  /\ \E o \in WAL_flush(Writer, FALSE) :
       /\ disk' = [disk EXCEPT ![wal.path] = o.file]
       /\ wal' = [wal EXCEPT !.buf = o.buf]
  /\ UNCHANGED <<mem_table, clock, pc, wal_files, fidx, rpos, call, ret, ghost>>

NextWal ==
  \/ WalSet
  \/ WalDelete
  \/ WalFlush

SpecWal == InitWal /\ [][NextWal]_vars

\* C14: the bytes WAL::set appends for (key, value, timestamp) decode through
\* WALIterator::next to that key, value and timestamp with deleted = false;
\* the bytes WAL::delete appends decode to that key and timestamp with
\* deleted = true and no value; the records appended to a segment, once
\* flushed, decode to the same sequence in the order of the appends.
C14_RoundTrip ==
  /\ \A i \in 1 .. Len(ghost.log) :
       LET r == ghost.log[i]
           item == WALIterator_next(Encode(r), 0)
       IN /\ item.kind = "Entry"
          /\ item.pos = Len(Encode(r))
          /\ item.entry.key = r.key
          /\ item.entry.timestamp = r.timestamp
          /\ item.entry.deleted = r.deleted
          /\ item.entry.value = r.value
          /\ WALIterator_next(Encode(r), item.pos).kind = "None"
  /\ (pc = "wal") =>
       /\ DecodeAll(disk[wal.path] \o wal.buf, 0) = ghost.log
       /\ wal.buf = <<>> => DecodeAll(disk[wal.path], 0) = ghost.log

\* A flushed segment that holds a set of the empty key with a two-byte
\* timestamp and then a delete.
C14_Witness ==
  /\ pc = "wal"
  /\ wal.buf = <<>>
  /\ Len(ghost.log) = 2
  /\ ghost.log[1] = SetRec(<<>>, <<0, 7>>, 258)
  /\ ghost.log[2].deleted
  /\ Len(DecodeAll(disk[wal.path], 0)) = 2

\* C15: after open, the one segment left holds every record of every old
\* segment, records that were overwritten or deleted later included, in the
\* order of the sorted segments and, within a segment, of the file, each
\* with its key, value, timestamp and deleted flag.
C15_FullHistory ==
  (pc = "up") =>
    /\ DOMAIN disk = {wal.path}
    /\ wal.buf = <<>>
    /\ DecodeAll(disk[wal.path], 0) = KeptRecs(ghost.segs)

\* Two whole segments, with a key that is set in the first and deleted in
\* the second.
C15_Witness ==
  /\ pc = "up"
  /\ NoCut
  /\ Len(ghost.segs) = 2
  /\ Len(DecodeAll(disk[wal.path], 0)) = 2
  /\ Len(mem_table.entries) = 1
  /\ ghost.segs[1].recs # <<>> /\ ~ghost.segs[1].recs[1].deleted
  /\ ghost.segs[2].recs # <<>> /\ ghost.segs[2].recs[1].deleted

(***************************************************************************)
(* SpecDir: one open of a directory whose segments have names of different *)
(* widths (creation timestamps 9, 10 and 100) and which may hold entries   *)
(* that are not segments: a file with another extension and one without    *)
(* any.  Each segment holds at most one record, all of the same key.       *)
(***************************************************************************)
DirNames == {9, 10, 100}
OtherNames == {[stem |-> "notes", ext |-> <<"txt">>], [stem |-> "LOCK", ext |-> <<>>]}

\* The numbers of S in ascending order.
RECURSIVE ByNumber(_)
ByNumber(S) ==
  IF S = {} THEN <<>>
  ELSE LET m == CHOOSE x \in S : \A y \in S : x <= y
       IN <<m>> \o ByNumber(S \ {m})

InitDir ==
  \E S \in SUBSET DirNames, o \in SUBSET OtherNames :
    \E f \in [S -> SeqsUpTo(OneKeyRecs, 1)] :
      /\ mem_table = MemTable_new
      /\ disk = [n \in S |-> EncodeAll(f[n])]
      /\ others = o
      /\ clock = Last(ByNumber(DirNames)) + 1
      /\ pc = "down"
      /\ wal_files = <<>>
      /\ fidx = 0
      /\ rpos = 0
      /\ wal = NoWal
      /\ call = <<>>
      /\ ret = "none"
      /\ ghost = [Ghost0 EXCEPT
                    !.segs = [i \in 1 .. Cardinality(S) |->
                                [name |-> ByNumber(S)[i], recs |-> f[ByNumber(S)[i]],
                                 cut |-> 0]],
                    !.horizon = Last(ByNumber(DirNames)) + 2]

NextDir ==
  \/ OpenPanic
  \/ OpenStart
  \/ ReplayStep
  \/ FlushStep
  \/ RemoveStep
  \/ OpenDone

SpecDir == InitDir /\ [][NextDir]_vars

\* The segments the run started with, as a directory, and their names.
SegNames == {ghost.segs[i].name : i \in 1 .. Len(ghost.segs)}
SegDisk ==
  [n \in SegNames |->
     SegmentBytes(ghost.segs[CHOOSE i \in 1 .. Len(ghost.segs) : ghost.segs[i].name = n])]

\* C16: entries of the directory whose name does not end in ".wal", names
\* without any extension included, are ignored by open: the recovery
\* completes (it does not abort), leaves them where they are and returns
\* the MemTable it returns for the segments alone.
C16_OtherFilesIgnored ==
  /\ pc # "panic"
  /\ (pc = "up") =>
       /\ DOMAIN disk = {wal.path}
       /\ mem_table = ReplayFiles(MemTable_new, SegDisk, sort(SegNames))

\* What holds: the same for the entries that have an extension.
C16_WithExtension ==
  (\A path \in others : extension(path) # <<>>) => C16_OtherFilesIgnored

\* The open of a directory that holds a segment and a file without extension.
C16_Witness ==
  /\ pc = "panic"
  /\ disk # <<>>
  /\ \E path \in others : extension(path) = <<>>

\* C20: the segments of a directory are replayed in ascending order of
\* their creation timestamps, the decimal numbers of their names, so that
\* for a key written in two segments the record of the segment created
\* later determines the recovered entry.
C20_MergeByFileDate ==
  /\ (pc \in {"replay", "remove", "up"}) => wal_files = ByNumber(SegNames)
  /\ (pc = "up") =>
       mem_table.entries = ApplyAll(MemTable_new, KeptRecs(ghost.segs)).entries

\* What holds: the order is that of the names as byte strings.
C20_ByName ==
  (pc \in {"replay", "remove", "up"}) =>
    \A i, j \in 1 .. Len(wal_files) :
      i < j => SliceCmp(FileName(wal_files[i]), FileName(wal_files[j])) = "Less"

\* Segments 9 and 10, each with a record of the key: the record of 9 wins.
C20_Witness ==
  /\ pc = "up"
  /\ SegNames = {9, 10}
  /\ ghost.segs[1].recs # <<>>
  /\ ghost.segs[2].recs # <<>>
  /\ mem_table.entries # ApplyAll(MemTable_new, KeptRecs(ghost.segs)).entries

\* C19: in every state of the MemTable an entry is deleted exactly when it
\* has no value; so every entry MemTable::get returns has a value, and
\* Database::get never unwraps an absent one.
C19_DeletedIffNoValue ==
  /\ \A i \in 1 .. Len(mem_table.entries) :
       mem_table.entries[i].deleted <=> ~mem_table.entries[i].value.some
  /\ \A k \in DbKeys :
       MemTable_get(mem_table, k).some => MemTable_get(mem_table, k).e.value.some

\* A Database opened again whose table, rebuilt from the segment, holds a
\* tombstone and a live entry.
C19_Witness ==
  /\ pc = "up"
  /\ ghost.opens >= 2
  /\ Len(mem_table.entries) = 2
  /\ \E i, j \in 1 .. 2 :
       /\ mem_table.entries[i].deleted
       /\ MemTable_get(mem_table, mem_table.entries[j].key).some
  /\ Len(DecodeAll(disk[wal.path], 0)) = 2

(***************************************************************************)
(* SpecFail: one open of a directory of whole segments on a file system    *)
(* that fails once.  load_from_dir either returns the error (the `?` of    *)
(* lines 54, 59 and 70), which Database::new unwraps, or panics itself     *)
(* (the unwraps of utils.rs 7, wal.rs 76 and 77).  Either way the process  *)
(* is gone (pc = "panic"); ghost.load tells the two apart.  When the WAL   *)
(* value is dropped on the way out, the BufWriter flushes what it holds    *)
(* and ignores the result.                                                 *)
(***************************************************************************)
MayFail == ghost.io_fails /\ ghost.fails < MaxFails

Failed(how) == [ghost EXCEPT !.load = how, !.fails = @ + 1]

\* The file after the drop of a BufWriter w: whatever its flush achieves.
DroppedFile(w) == {d.file : d \in flush_buf(w, TRUE)}

\* utils.rs 7: read_dir(..).unwrap() on an unreadable directory.
ReadDirFail ==
  /\ pc = "down"
  /\ clock < ghost.horizon
  /\ MayFail
  /\ pc' = "panic"
  /\ ghost' = Failed("panic")
  /\ UNCHANGED <<mem_table, disk, others, clock, wal_files, fidx, rpos, wal, call, ret>>

\* wal.rs 54: WAL::new(dir)? fails; no file is created.
CreateFail ==
  /\ pc = "down"
  /\ clock < ghost.horizon
  /\ ~files_with_ext_panics(others)
  /\ MayFail
  /\ wal_files' = sort(files_with_ext(disk))
  /\ pc' = "panic"
  /\ ghost' = Failed("Err")
  /\ UNCHANGED <<mem_table, disk, others, clock, fidx, rpos, wal, call, ret>>

\* wal.rs 59 / 70: new_wal.delete(..)? / new_wal.set(..)? fails; the entry
\* was applied to the MemTable just before; new_wal is dropped.
ReplayFail ==
  /\ pc = "replay"
  /\ fidx < Len(wal_files)
  /\ MayFail
  /\ LET item == WALIterator_next(disk[wal_files[fidx + 1]], rpos)
     IN /\ ~SegmentExhausted(item)
        /\ mem_table' = apply_entry(mem_table, item.entry)
        /\ \E o \in write_all_seq(Writer, RecWrites(item.entry), TRUE) :
             /\ ~o.ok
             /\ \E file \in DroppedFile(o) : disk' = [disk EXCEPT ![wal.path] = file]
  /\ wal' = [wal EXCEPT !.buf = <<>>]
  /\ pc' = "panic"
  /\ ghost' = Failed("Err")
  /\ UNCHANGED <<others, clock, wal_files, fidx, rpos, call, ret>>

\* wal.rs 76: new_wal.flush().unwrap() fails; new_wal is dropped by the
\* unwinding, or not at all in a build that aborts on panic.
FlushFail ==
  /\ pc = "replay"
  /\ fidx = Len(wal_files)
  /\ MayFail
  /\ \E o \in WAL_flush(Writer, TRUE) :
       /\ ~o.ok
       /\ \E file \in {o.file} \cup DroppedFile(o) :
            disk' = [disk EXCEPT ![wal.path] = file]
  /\ wal' = [wal EXCEPT !.buf = <<>>]
  /\ pc' = "panic"
  /\ ghost' = Failed("panic")
  /\ UNCHANGED <<mem_table, others, clock, wal_files, fidx, rpos, call, ret>>

\* wal.rs 77: remove_file(f).unwrap() fails; the file stays.
RemoveFail ==
  /\ pc = "remove"
  /\ fidx < Len(wal_files)
  /\ MayFail
  /\ pc' = "panic"
  /\ ghost' = Failed("panic")
  /\ UNCHANGED <<mem_table, disk, others, clock, wal_files, fidx, rpos, wal, call, ret>>

InitFail ==
  \E n \in 0 .. MaxSegs :
    \E lists \in SegLists(OneKeyRecs, n, MaxRecs) :
      /\ mem_table = MemTable_new
      /\ disk = [f \in {Epoch + i - 1 : i \in 1 .. n} |-> EncodeAll(lists[f - Epoch + 1])]
      /\ others = {}
      /\ clock = Epoch + n
      /\ pc = "down"
      /\ wal_files = <<>>
      /\ fidx = 0
      /\ rpos = 0
      /\ wal = NoWal
      /\ call = <<>>
      /\ ret = "none"
      /\ ghost = [Ghost0 EXCEPT !.segs = [i \in 1 .. n |-> Segment(i, lists[i], 0)],
                                !.horizon = Epoch + n + 1,
                                !.io_fails = TRUE]

NextFail ==
  \/ OpenStart
  \/ ReplayStep
  \/ FlushStep
  \/ RemoveStep
  \/ OpenDone
  \/ ReadDirFail
  \/ CreateFail
  \/ ReplayFail
  \/ FlushFail
  \/ RemoveFail

SpecFail == InitFail /\ [][NextFail]_vars

\* C21: a step of the recovery removes an old segment only when the
\* successor has been flushed with success and holds every replayed record;
\* when creating or appending to the successor fails, load_from_dir returns
\* the error and every old segment is in the directory as it was.
C21_NoEarlyRemoval ==
  [][/\ (\E f \in DOMAIN disk : f \notin DOMAIN disk') =>
          /\ pc = "remove"
          /\ wal.buf = <<>>
          /\ wal.path \in DOMAIN disk'
          /\ DecodeAll(disk[wal.path], 0) = KeptRecs(ghost.segs)
     /\ (pc = "replay" /\ pc' = "panic" /\ fidx < Len(wal_files)) =>
          ghost'.load = "Err"
     /\ (ghost'.load = "Err") =>
          \A i \in 1 .. Len(ghost.segs) :
            /\ ghost.segs[i].name \in DOMAIN disk'
            /\ disk'[ghost.segs[i].name] = SegmentBytes(ghost.segs[i])
    ]_vars

\* An append to the successor failed after the first record had been
\* replayed: both old segments are there, next to a partial successor.
C21_Witness ==
  /\ pc = "panic"
  /\ ghost.load = "Err"
  /\ Len(ghost.segs) = 2
  /\ wal # NoWal
  /\ disk[wal.path] # <<>>
  /\ \A i \in 1 .. 2 : ghost.segs[i].name \in DOMAIN disk

\* C24: an I/O failure during open (reading the directory, creating the
\* successor, appending to it, flushing it, removing an old segment) is
\* reported to the caller as an error: the process is not aborted, and no
\* live Database is produced.
C24_ErrorsReturned ==
  (ghost.fails > 0) => (pc # "panic" /\ pc \notin {"up", "wal_done"})

\* What holds: after such a failure there is no live Database.
C24_NoLiveDatabase ==
  (ghost.fails > 0) => (pc = "panic" /\ ghost.opens = 0)

\* The removal of the second old segment failed: the process is gone.
C24_Witness ==
  /\ pc = "panic"
  /\ ghost.load = "panic"
  /\ Len(wal_files) = 2
  /\ wal_files[1] \notin DOMAIN disk
  /\ wal_files[2] \in DOMAIN disk

\* The segment of the appended records, and that segment cut n bytes into
\* its last record.
LogBytes == EncodeAll(ghost.log)
LogCut(n) ==
  Take(LogBytes, Len(LogBytes) - Len(Encode(Last(ghost.log))) + n)
LastStart == Len(LogBytes) - Len(Encode(Last(ghost.log)))

\* C23: with no byte left at a record boundary WALIterator::next signals
\* end-of-stream; when the file ends anywhere inside a record (key-length
\* prefix, flag, value-length prefix, key, value, timestamp) it signals a
\* corrupt record, not end-of-stream and not a record, whatever the record
\* holds.
C23_DecoderContract ==
  (ghost.log # <<>>) =>
    /\ WALIterator_next(LogBytes, Len(LogBytes)).kind = "None"
    /\ \A n \in 1 .. (Len(Encode(Last(ghost.log))) - 1) :
         WALIterator_next(LogCut(n), LastStart).kind = "CorruptRecord"

\* What holds: the same for the cuts that leave a non-zero byte of the
\* key-length prefix or that fall behind the prefix; a cut that leaves only
\* zero bytes of the prefix reads as end-of-stream.
C23_NonZeroPrefix ==
  (ghost.log # <<>>) =>
    /\ WALIterator_next(LogBytes, Len(LogBytes)).kind = "None"
    /\ \A n \in 1 .. (Len(Encode(Last(ghost.log))) - 1) :
         WALIterator_next(LogCut(n), LastStart).kind =
           IF n < UsizeBytes /\ Take(Encode(Last(ghost.log)), n) = Zeros(n)
           THEN "None" ELSE "CorruptRecord"

\* A record of the empty key after another record, cut three bytes into
\* its key-length prefix: the iterator reports the end of the stream.
C23_Witness ==
  /\ Len(ghost.log) = 2
  /\ Last(ghost.log).key = <<>>
  /\ WALIterator_next(LogCut(3), LastStart).kind = "None"
  /\ wal.buf = <<>>
  /\ disk[wal.path] = LogBytes

(***************************************************************************)
(* SpecClock: one open of a directory of whole segments, with a clock that *)
(* may hand WAL::new the timestamp of a segment that is already there (a   *)
(* coarse clock, or one that was set back).  WAL::new then opens that file *)
(* for appending, and the recovery reads the file it writes to; the replay *)
(* is followed while the successor is shorter than MaxFile bytes.          *)
(***************************************************************************)
MaxFile == 120

InitClock ==
  \E n \in 0 .. MaxSegs :
    \E lists \in SegLists(OneKeyRecs, n, MaxRecs) :
      \E now \in Epoch .. (Epoch + n) :
        /\ mem_table = MemTable_new
        /\ disk = [f \in {Epoch + i - 1 : i \in 1 .. n} |-> EncodeAll(lists[f - Epoch + 1])]
        /\ others = {}
        /\ clock = now
        /\ pc = "down"
        /\ wal_files = <<>>
        /\ fidx = 0
        /\ rpos = 0
        /\ wal = NoWal
        /\ call = <<>>
        /\ ret = "none"
        /\ ghost = [Ghost0 EXCEPT !.segs = [i \in 1 .. n |-> Segment(i, lists[i], 0)],
                                  !.horizon = now + 1]

ReplayWithin ==
  /\ pc = "replay"
  /\ Len(disk[wal.path]) < MaxFile
  /\ ReplayStep

NextClock ==
  \/ OpenStart
  \/ ReplayWithin
  \/ FlushStep
  \/ RemoveStep
  \/ OpenDone

SpecClock == InitClock /\ [][NextClock]_vars

\* C22: the successor the recovery creates is none of the old segments it
\* found: it is not read as an input of the recovery and not removed by
\* it, and when open has returned the file of the live WAL is in the
\* directory, also when the clock yields the name of an existing segment.
C22_SuccessorDistinct ==
  /\ (pc \in {"replay", "remove", "up"}) =>
       \A i \in 1 .. Len(wal_files) : wal_files[i] # wal.path
  /\ (pc = "up") => wal.path \in DOMAIN disk

\* What holds: the same when the timestamp is the name of no old segment.
C22_FreshName ==
  (pc \in {"replay", "remove", "up"}
     /\ \A i \in 1 .. Len(ghost.segs) : ghost.segs[i].name # wal.path)
  => C22_SuccessorDistinct

\* An open that returned a Database whose WAL file the recovery removed.
C22_Witness ==
  /\ pc = "up"
  /\ wal.path \notin DOMAIN disk
  /\ mem_table.entries # <<>>
  /\ Len(ghost.segs) = 2

====
